---- MODULE Spec2Model ----
(***************************************************************************)
(* Model of lxmonika's process handler registry (lxmonika/ProcessMap.cpp). *)
(*                                                                         *)
(* The registry is an AVL table of _NODE { Key; Value } elements, where    *)
(* Value is a PROCESS_HANDLER_INFORMATION.  Every method of ProcessMap is  *)
(* modelled at the granularity of its shared-memory accesses: one action   *)
(* per tree access or field access, in program order.  None of the methods *)
(* in ProcessMap.cpp acquires m_mutex, so the steps of different threads   *)
(* interleave freely in Spec.  SpecSeq is the same program driven by a     *)
(* single caller thread, so that each method runs to completion before     *)
(* the next one starts.                                                    *)
(*                                                                         *)
(* The second part models the Monix loader (mxss/monix/src/loader.cpp):    *)
(* _start and LinuxFail, one action per syscall and per round of the digit *)
(* loop.  SpecLoader runs the loader process.                              *)
(***************************************************************************)
EXTENDS Integers, FiniteSets, Sequences, TLC

\* ------------------------------------------------------------------ bounds
NumProcs == 2
NumHandlers == 2
NumThreads == 2
NumSlots == 2
MaxCalls == 3
MaxErrno == 20
MaxResult == 1

\* (DWORD)-1, the handler SwitchProcessHandler registers implicitly: the
\* 32-bit pattern 0xFFFFFFFF, written as the signed value of that pattern.
\* Handlers are only ever compared for equality.
Sentinel == -1

\* EEXIST of <errno.h>, the one failure of mknod that _start tolerates.
EEXIST == 17

Processes == 1..NumProcs
Handlers == (1..NumHandlers) \cup {Sentinel}
Threads == 1..NumThreads
Slots == 1..NumSlots
NULL == 0

VARIABLES
    m_table,      \* the elements linked into the AVL table (pool slots)
    m_mutex,      \* owner of the FAST_MUTEX, NULL when not held
    pool,         \* pool memory: slot -> _NODE contents
    allocated,    \* slots handed out by _AllocateRoutine and not yet freed
    thr,          \* per thread: program counter, arguments, locals, result
    serialized,   \* TRUE when a single caller thread drives the registry
    flipFrom,     \* history: slot -> Handler held when HasParentHandler was set
    hopped,       \* history: processes switched successfully and not unregistered since
    origin,       \* history: slot -> which registration created the element
    calls,        \* history: number of method calls made so far
    ld            \* the Monix loader process (mxss/monix/src/loader.cpp)

vars == <<m_table, m_mutex, pool, allocated, thr, serialized, flipFrom, hopped,
          origin, calls, ld>>

\* ------------------------------------------------------------ data types
\* PROCESS_HANDLER_INFORMATION after memset(0) / ExAllocatePoolZero.
ZeroInfo ==
    [Handler |-> 0, HasParentHandler |-> FALSE,
     HasInternalParentHandler |-> FALSE, ParentHandler |-> 0]

\* _NODE after memset(&node, 0, sizeof(node)).
ZeroNode == [Key |-> NULL, Value |-> ZeroInfo]

\* The registry seen from outside: for each process the set of entries the
\* table holds for it.
View(p) == {pool[s].Value : s \in {x \in m_table : pool[x].Key = p}}
Registry == [p \in Processes |-> View(p)]
RegistrySize == Cardinality(m_table)

IdleThread ==
    [pc |-> "idle", op |-> "none", process |-> NULL, handler |-> 0,
     node |-> ZeroNode, found |-> NULL, pInfo |-> NULL,
     bHasInternalProvider |-> FALSE, status |-> "none", out |-> ZeroInfo,
     pre |-> [p \in Processes |-> {}], preSize |-> 0,
     wasHopped |-> FALSE, peer |-> NULL, again |-> "none",
     after |-> [op |-> "none", handler |-> 0, delegated |-> FALSE],
     rounds |-> 0]

\* A thread may start or continue a method.  Under SpecSeq only thread 1
\* calls into the registry.
CanRun(t) == serialized => t = 1

\* A thread may call a method.
CanCall(t) == CanRun(t) /\ thr[t].pc = "idle" /\ calls < MaxCalls

Idle(t) == thr[t].pc = "idle"
Done(t) == thr[t].pc = "idle" /\ thr[t].op # "none"

\* ---------------------------------------------------------- the loader
\* The loader process at the entry of _start: no syscall issued yet.
LoaderStart ==
    [pc |-> "write_bootstrap", status |-> 0, fd |-> 0, message |-> "",
     statusString |-> <<>>, length |-> 0, log |-> <<>>, failStatus |-> 0]

\* ---------------------------------------------------------- Initialize
MutexFree == NULL

InitCommon ==
    /\ m_table = {}
    /\ m_mutex = MutexFree
    /\ pool = [s \in Slots |-> ZeroNode]
    /\ allocated = {}
    /\ thr = [t \in Threads |-> IdleThread]
    /\ flipFrom = [s \in Slots |-> 0]
    /\ hopped = {}
    /\ origin = [s \in Slots |-> "none"]
    /\ calls = 0
    /\ ld = LoaderStart

Init == InitCommon /\ serialized = FALSE
InitSeq == InitCommon /\ serialized = TRUE

\* ------------------------------------------------------ _CompareRoutine
CompareRoutine(first, second) ==
    IF first.Key = second.Key THEN "GenericEqual"
    ELSE IF first.Key > second.Key THEN "GenericGreaterThan"
    ELSE "GenericLessThan"

\* The elements a tree search for `node` can end at: the linked elements
\* that compare equal to it.
Matches(node) ==
    {s \in m_table : CompareRoutine(node, pool[s]) = "GenericEqual"}

\* Results of a tree search: a matching element, NULL when there is none.
SearchResults(node) ==
    IF Matches(node) = {} THEN {NULL} ELSE Matches(node)

KeyNode(key) == [ZeroNode EXCEPT !.Key = key]

\* ----------------------------------------------------- method prologue
\* What a thread records when it enters a public method: the registry it
\* starts from and, in `after`, the call it made just before when that was
\* a Clear or a successful RegisterProcessHandler or UnregisterProcess for
\* the same process.
Enter(t, op, p, h) ==
    [IdleThread EXCEPT
        !.op = op, !.process = p, !.handler = h,
        !.pre = Registry, !.preSize = RegistrySize,
        !.wasHopped = (p \in hopped),
        !.peer = IF \E u \in Threads \ {t} :
                        thr[u].pc # "idle" /\ thr[u].op = op /\ thr[u].process = p
                 THEN CHOOSE u \in Threads \ {t} :
                        thr[u].pc # "idle" /\ thr[u].op = op /\ thr[u].process = p
                 ELSE NULL,
        !.again = IF thr[t].op = op /\ thr[t].process = p
                  THEN thr[t].status ELSE "none",
        !.after = IF thr[t].op = "clear"
                  THEN [op |-> "clear", handler |-> 0, delegated |-> FALSE]
                  ELSE IF /\ thr[t].process = p
                          /\ thr[t].op \in {"register", "unregister"}
                          /\ thr[t].status = "STATUS_SUCCESS"
                  THEN [op |-> thr[t].op, handler |-> thr[t].handler,
                        delegated |-> \E e \in thr[t].pre[p] : e.HasParentHandler]
                  ELSE [op |-> "none", handler |-> 0, delegated |-> FALSE]]

\* Threads already inside the same method for the same process learn that
\* thread t has joined them.
NotePeer(t, op, p, base) ==
    [u \in Threads |->
        IF u # t /\ base[u].pc # "idle" /\ base[u].op = op
           /\ base[u].process = p /\ base[u].peer = NULL
        THEN [base[u] EXCEPT !.peer = t]
        ELSE base[u]]

\* The record a thread is left with when its method returns `status`.
Return(rec, status) ==
    [rec EXCEPT !.pc = "idle", !.status = status, !.node = ZeroNode,
                !.found = NULL, !.pInfo = NULL, !.bHasInternalProvider = FALSE]


\* ------------------------------------------------------ pool allocator
\* _AllocateRoutine: ExAllocatePoolZero returns zeroed memory from an unused
\* slot, or NULL when the pool cannot satisfy the request.
AllocateRoutine == {NULL} \cup (Slots \ allocated)

\* Values a read through pointer s can produce.  A pointer into freed pool
\* memory is dangling: the read can produce any value of the field's type.
ReadHasParentHandler(s) ==
    IF s \in allocated THEN {pool[s].Value.HasParentHandler} ELSE BOOLEAN
ReadHandler(s) ==
    IF s \in allocated THEN {pool[s].Value.Handler} ELSE Handlers \cup {0}
ReadInfo(s) ==
    IF s \in allocated THEN {pool[s].Value}
    ELSE [Handler : Handlers \cup {0}, HasParentHandler : BOOLEAN,
          HasInternalParentHandler : BOOLEAN, ParentHandler : Handlers \cup {0}]

\* ------------------------------------------- RegisterProcessHandler
\* Lines 89-98: build the key node; RtlInsertElementGenericTableAvl first
\* searches the tree for an element that compares equal.
RegisterSearch(rec, p, h, s) ==
    [rec EXCEPT !.node = [Key |-> p, Value |-> [ZeroInfo EXCEPT !.Handler = h]],
                !.found = s, !.pc = "reg_insert"]

RegisterProcessHandler(t) ==
    /\ CanCall(t)
    /\ calls' = calls + 1
    /\ \E p \in Processes, h \in Handlers : \E s \in SearchResults(KeyNode(p)) :
        thr' = NotePeer(t, "register", p,
                 [thr EXCEPT ![t] = RegisterSearch(Enter(t, "register", p, h), p, h, s)])
    /\ UNCHANGED <<m_table, m_mutex, pool, allocated, serialized, ld, flipFrom, origin, hopped>>

\* InsertStatus without the bNewEntry check of lines 105-108.
InsertStatusIgnoresNewEntry(pInsertedNode, bNewEntry) ==
    IF pInsertedNode = NULL THEN "STATUS_INSUFFICIENT_RESOURCES"
    ELSE "STATUS_SUCCESS"

\* Lines 100-112: the status RegisterProcessHandler derives from what
\* RtlInsertElementGenericTableAvl returned.
InsertStatus(pInsertedNode, bNewEntry) ==
    IF pInsertedNode = NULL THEN "STATUS_INSUFFICIENT_RESOURCES"
    ELSE IF ~bNewEntry THEN "STATUS_ALREADY_REGISTERED"
    ELSE "STATUS_SUCCESS"

\* NT_SUCCESS(status), for the status codes the registry uses.
NT_SUCCESS(status) == status = "STATUS_SUCCESS"

\* AfterRegister reporting a failed implicit registration under a status of
\* its own instead of the one RegisterProcessHandler returned.
AfterRegisterOwnStatus(rec, status) ==
    IF rec.op = "switch" /\ NT_SUCCESS(status)
    THEN [rec EXCEPT !.pc = "sw_lookup", !.node = ZeroNode, !.found = NULL]
    ELSE Return(rec, IF rec.op = "switch" THEN "STATUS_UNSUCCESSFUL" ELSE status)

\* Where RegisterProcessHandler's result goes: to the caller of the public
\* method, or back into SwitchProcessHandler (lines 126-136), which goes on
\* only when the registration succeeded.
AfterRegister(rec, status) ==
    IF rec.op = "switch" /\ NT_SUCCESS(status)
    THEN [rec EXCEPT !.pc = "sw_lookup", !.node = ZeroNode, !.found = NULL]
    ELSE Return(rec, status)

\* How the element a thread inserts comes into being: through the public
\* RegisterProcessHandler, or through the call SwitchProcessHandler makes at
\* line 126.
CreatedBy(rec) == IF rec.op = "switch" THEN "implicit" ELSE "explicit"

\* Lines 97-112: the second half of RtlInsertElementGenericTableAvl and the
\* checks on its result.  An equal element found by the search is returned
\* with bNewEntry = FALSE; otherwise a new element is allocated, filled from
\* the key node and linked into the tree.
InsertElement(t) ==
    /\ CanRun(t) /\ thr[t].pc = "reg_insert"
    /\ LET rec == thr[t] IN
        IF rec.found # NULL
        THEN /\ thr' = [thr EXCEPT ![t] =
                          AfterRegister(rec, InsertStatus(rec.found, FALSE))]
             /\ UNCHANGED <<m_table, pool, allocated, flipFrom, origin>>
        ELSE \E s \in AllocateRoutine :
            IF s = NULL
            THEN /\ thr' = [thr EXCEPT ![t] =
                              AfterRegister(rec, InsertStatus(NULL, FALSE))]
                 /\ UNCHANGED <<m_table, pool, allocated, flipFrom, origin>>
            ELSE /\ pool' = [pool EXCEPT ![s] = rec.node]
                 /\ allocated' = allocated \cup {s}
                 /\ m_table' = m_table \cup {s}
                 /\ flipFrom' = [flipFrom EXCEPT ![s] = 0]
                 /\ origin' = [origin EXCEPT ![s] = CreatedBy(rec)]
                 /\ thr' = [thr EXCEPT ![t] =
                              AfterRegister(rec, InsertStatus(s, TRUE))]
    /\ UNCHANGED <<m_mutex, serialized, ld, hopped, calls>>

\* ------------------------------------------------- UnregisterProcess
\* Lines 158-163: RtlDeleteElementGenericTableAvl searches for the key.
UnregisterProcess(t) ==
    /\ CanCall(t)
    /\ calls' = calls + 1
    /\ \E p \in Processes : \E s \in SearchResults(KeyNode(p)) :
        thr' = NotePeer(t, "unregister", p,
                 [thr EXCEPT ![t] = [Enter(t, "unregister", p, 0) EXCEPT
                                        !.node = KeyNode(p), !.found = s,
                                        !.pc = "unreg_delete"]])
    /\ UNCHANGED <<m_table, m_mutex, pool, allocated, serialized, ld, flipFrom, origin, hopped>>

\* DeleteStatus without the check of line 163.
DeleteStatusAlwaysSuccess(deleted) == "STATUS_SUCCESS"

\* Lines 163-168: the status UnregisterProcess derives from what
\* RtlDeleteElementGenericTableAvl returned.
DeleteStatus(deleted) ==
    IF deleted = FALSE THEN "STATUS_NOT_FOUND" ELSE "STATUS_SUCCESS"

\* The table after RtlDeleteElementGenericTableAvl has unlinked element s.
Unlink(s) == m_table \ {s}

\* DeleteElement reporting the deletion without unlinking the element.
DeleteElementKeepsEntry(t) ==
    /\ CanRun(t) /\ thr[t].pc = "unreg_delete"
    /\ thr' = [thr EXCEPT ![t] = Return(thr[t], DeleteStatus(thr[t].found # NULL))]
    /\ UNCHANGED <<m_table, m_mutex, pool, allocated, serialized, ld, flipFrom, origin, hopped, calls>>

\* Lines 163-168: the element found is unlinked and freed (_FreeRoutine);
\* FALSE is returned when the search found none.  An element that another
\* thread unlinked in the meantime is freed a second time.
DeleteElement(t) ==
    /\ CanRun(t) /\ thr[t].pc = "unreg_delete"
    /\ LET rec == thr[t]
           s == rec.found IN
        IF s = NULL
        THEN /\ thr' = [thr EXCEPT ![t] = Return(rec, DeleteStatus(FALSE))]
             /\ UNCHANGED <<m_table, pool, allocated, flipFrom, origin, hopped>>
        ELSE /\ m_table' = Unlink(s)
             /\ allocated' = IF s \in m_table THEN allocated \ {s} ELSE allocated
             /\ pool' = IF s \in m_table THEN [pool EXCEPT ![s] = ZeroNode] ELSE pool
             /\ flipFrom' = IF s \in m_table THEN [flipFrom EXCEPT ![s] = 0] ELSE flipFrom
             /\ origin' = IF s \in m_table THEN [origin EXCEPT ![s] = "none"] ELSE origin
             /\ hopped' = hopped \ {rec.process}
             /\ thr' = [thr EXCEPT ![t] = Return(rec, DeleteStatus(TRUE))]
    /\ UNCHANGED <<m_mutex, serialized, ld, calls>>

\* ------------------------------------------------------------- Clear
\* Line 11: Clear takes no argument and returns nothing.
Clear(t) ==
    /\ CanCall(t)
    /\ calls' = calls + 1
    /\ thr' = [thr EXCEPT ![t] = [Enter(t, "clear", NULL, 0) EXCEPT !.pc = "clr_enum"]]
    /\ UNCHANGED <<m_table, m_mutex, pool, allocated, serialized, ld, flipFrom, origin, hopped>>

\* RtlEnumerateGenericTableAvl(&m_table, TRUE): the enumeration restarts and
\* returns the first element in key order, NULL when the table is empty.
EnumerateFirst ==
    IF m_table = {} THEN {NULL}
    ELSE {s \in m_table : \A x \in m_table : pool[s].Key <= pool[x].Key}

\* Line 15: the loop condition; Clear returns when the table is empty.
ClearEnumerate(t) ==
    /\ CanRun(t) /\ thr[t].pc = "clr_enum"
    /\ \E s \in EnumerateFirst :
        thr' = [thr EXCEPT ![t] =
                  IF s = NULL THEN Return(thr[t], "VOID")
                  ELSE [thr[t] EXCEPT !.found = s, !.pc = "clr_delete"]]
    /\ UNCHANGED <<m_table, m_mutex, pool, allocated, serialized, ld, flipFrom, origin, hopped, calls>>

\* The keys a read of pCurrentElement->Key can produce.
ReadKey(s) == IF s \in allocated THEN {pool[s].Key} ELSE Processes

\* The loop body with a return after the first deletion.
ClearDeleteOnce(t) ==
    /\ CanRun(t) /\ thr[t].pc = "clr_delete"
    /\ \E k \in ReadKey(thr[t].found) : \E s \in SearchResults(KeyNode(k)) :
        IF s = NULL
        THEN UNCHANGED <<m_table, pool, allocated, flipFrom, origin, hopped>>
        ELSE /\ m_table' = Unlink(s)
             /\ allocated' = allocated \ {s}
             /\ pool' = [pool EXCEPT ![s] = ZeroNode]
             /\ flipFrom' = [flipFrom EXCEPT ![s] = 0]
             /\ origin' = [origin EXCEPT ![s] = "none"]
             /\ hopped' = hopped \ {k}
    /\ thr' = [thr EXCEPT ![t] = Return([thr[t] EXCEPT !.rounds = @ + 1], "VOID")]
    /\ UNCHANGED <<m_mutex, serialized, ld, calls>>

\* Line 17: RtlDeleteElementGenericTableAvl(&m_table, pCurrentElement)
\* searches for an element that compares equal to *pCurrentElement, unlinks
\* it and frees it (_FreeRoutine); then the loop enumerates again.  `rounds`
\* counts the rounds of the loop.
ClearDelete(t) ==
    /\ CanRun(t) /\ thr[t].pc = "clr_delete"
    /\ \E k \in ReadKey(thr[t].found) : \E s \in SearchResults(KeyNode(k)) :
        IF s = NULL
        THEN UNCHANGED <<m_table, pool, allocated, flipFrom, origin, hopped>>
        ELSE /\ m_table' = Unlink(s)
             /\ allocated' = allocated \ {s}
             /\ pool' = [pool EXCEPT ![s] = ZeroNode]
             /\ flipFrom' = [flipFrom EXCEPT ![s] = 0]
             /\ origin' = [origin EXCEPT ![s] = "none"]
             /\ hopped' = hopped \ {k}
    /\ thr' = [thr EXCEPT ![t] = [thr[t] EXCEPT !.found = NULL, !.pc = "clr_enum",
                                                !.rounds = @ + 1]]
    /\ UNCHANGED <<m_mutex, serialized, ld, calls>>

\* ------------------------------------------------------- operator[]
\* Lines 171-189: RtlLookupElementGenericTableAvl with a key-only node; the
\* result is a pointer to the element's Value, or NULL.
Lookup(key) == SearchResults(KeyNode(key))

\* ---------------------------------------------- SwitchProcessHandler
\* Lines 121-124: the first lookup.
SwitchProcessHandler(t) ==
    /\ CanCall(t)
    /\ calls' = calls + 1
    /\ \E p \in Processes, h \in Handlers : \E s \in Lookup(p) :
        thr' = NotePeer(t, "switch", p,
                 [thr EXCEPT ![t] = [Enter(t, "switch", p, h) EXCEPT
                                        !.pInfo = s,
                                        !.bHasInternalProvider = TRUE,
                                        !.pc = IF s = NULL THEN "sw_register"
                                               ELSE "sw_check"]])
    /\ UNCHANGED <<m_table, m_mutex, pool, allocated, serialized, ld, flipFrom, origin, hopped>>

\* Line 126: RegisterProcessHandler(process, (DWORD)-1), up to its search.
SwitchRegister(t) ==
    /\ CanRun(t) /\ thr[t].pc = "sw_register"
    /\ \E s \in SearchResults(KeyNode(thr[t].process)) :
        thr' = [thr EXCEPT ![t] = RegisterSearch(thr[t], thr[t].process, Sentinel, s)]
    /\ UNCHANGED <<m_table, m_mutex, pool, allocated, serialized, ld, flipFrom, origin, hopped, calls>>

\* SwitchLookupAgain without line 133: bHasInternalProvider stays TRUE.
SwitchLookupAgainKeepsInternal(t) ==
    /\ CanRun(t) /\ thr[t].pc = "sw_lookup"
    /\ \E s \in Lookup(thr[t].process) :
        thr' = [thr EXCEPT ![t] =
                  IF s = NULL
                  THEN Return(thr[t], "BUGCHECK")
                  ELSE [thr[t] EXCEPT !.pInfo = s, !.pc = "sw_check"]]
    /\ UNCHANGED <<m_table, m_mutex, pool, allocated, serialized, ld, flipFrom, origin, hopped, calls>>

\* Lines 132-135: the lookup after the implicit registration.  The ASSERT
\* (and the dereference at line 140) stops the system when the entry is gone.
SwitchLookupAgain(t) ==
    /\ CanRun(t) /\ thr[t].pc = "sw_lookup"
    /\ \E s \in Lookup(thr[t].process) :
        thr' = [thr EXCEPT ![t] =
                  IF s = NULL
                  THEN Return(thr[t], "BUGCHECK")
                  ELSE [thr[t] EXCEPT !.pInfo = s, !.bHasInternalProvider = FALSE,
                                      !.pc = "sw_check"]]
    /\ UNCHANGED <<m_table, m_mutex, pool, allocated, serialized, ld, flipFrom, origin, hopped, calls>>

\* SwitchCheck without the restriction of lines 140-143.
SwitchCheckNoRestriction(t) ==
    /\ CanRun(t) /\ thr[t].pc = "sw_check"
    /\ thr' = [thr EXCEPT ![t].pc = "sw_145"]
    /\ UNCHANGED <<m_table, m_mutex, pool, allocated, serialized, ld, flipFrom, origin, hopped, calls>>

\* Lines 140-143: the single-level restriction.
SwitchCheck(t) ==
    /\ CanRun(t) /\ thr[t].pc = "sw_check"
    /\ \E has \in ReadHasParentHandler(thr[t].pInfo) :
        thr' = [thr EXCEPT ![t] =
                  IF has THEN Return(thr[t], "STATUS_NOT_IMPLEMENTED")
                  ELSE [thr[t] EXCEPT !.pc = "sw_145"]]
    /\ UNCHANGED <<m_table, m_mutex, pool, allocated, serialized, ld, flipFrom, origin, hopped, calls>>

\* Line 145: pInfo->HasParentHandler = TRUE.
SwitchSetHasParentHandler(t) ==
    /\ CanRun(t) /\ thr[t].pc = "sw_145"
    /\ LET s == thr[t].pInfo IN
        /\ pool' = IF s \in allocated
                   THEN [pool EXCEPT ![s].Value.HasParentHandler = TRUE] ELSE pool
        /\ flipFrom' = IF s \in allocated
                       THEN [flipFrom EXCEPT ![s] = pool[s].Value.Handler] ELSE flipFrom
    /\ thr' = [thr EXCEPT ![t].pc = "sw_146"]
    /\ UNCHANGED <<m_table, m_mutex, allocated, serialized, ld, hopped, origin, calls>>

\* Line 146: pInfo->HasInternalParentHandler = bHasInternalProvider.
SwitchSetHasInternalParentHandler(t) ==
    /\ CanRun(t) /\ thr[t].pc = "sw_146"
    /\ LET s == thr[t].pInfo IN
        pool' = IF s \in allocated
                THEN [pool EXCEPT ![s].Value.HasInternalParentHandler =
                                     thr[t].bHasInternalProvider]
                ELSE pool
    /\ thr' = [thr EXCEPT ![t].pc = "sw_147"]
    /\ UNCHANGED <<m_table, m_mutex, allocated, serialized, ld, flipFrom, origin, hopped, calls>>

\* Line 147 with the new handler stored as the parent.
SwitchSetParentHandlerToNew(t) ==
    /\ CanRun(t) /\ thr[t].pc = "sw_147"
    /\ LET s == thr[t].pInfo IN
        pool' = IF s \in allocated
                THEN [pool EXCEPT ![s].Value.ParentHandler = thr[t].handler] ELSE pool
    /\ thr' = [thr EXCEPT ![t].pc = "sw_148"]
    /\ UNCHANGED <<m_table, m_mutex, allocated, serialized, ld, flipFrom, origin, hopped, calls>>

\* Line 147: pInfo->ParentHandler = pInfo->Handler.
SwitchSetParentHandler(t) ==
    /\ CanRun(t) /\ thr[t].pc = "sw_147"
    /\ LET s == thr[t].pInfo IN
        \E h \in ReadHandler(s) :
            pool' = IF s \in allocated
                    THEN [pool EXCEPT ![s].Value.ParentHandler = h] ELSE pool
    /\ thr' = [thr EXCEPT ![t].pc = "sw_148"]
    /\ UNCHANGED <<m_table, m_mutex, allocated, serialized, ld, flipFrom, origin, hopped, calls>>

\* Lines 148-150: pInfo->Handler = newHandler; return STATUS_SUCCESS.
SwitchSetHandler(t) ==
    /\ CanRun(t) /\ thr[t].pc = "sw_148"
    /\ LET s == thr[t].pInfo IN
        pool' = IF s \in allocated
                THEN [pool EXCEPT ![s].Value.Handler = thr[t].handler] ELSE pool
    /\ thr' = [thr EXCEPT ![t] = Return(thr[t], "STATUS_SUCCESS")]
    /\ hopped' = hopped \cup {thr[t].process}
    /\ UNCHANGED <<m_table, m_mutex, allocated, serialized, ld, flipFrom, origin, calls>>


\* ------------------------------------------- ProcessBelongsToHandler
\* Lines 27-32: the lookup; FALSE when the process has no entry.
ProcessBelongsToHandler(t) ==
    /\ CanCall(t)
    /\ calls' = calls + 1
    /\ \E p \in Processes, h \in Handlers : \E s \in Lookup(p) :
        thr' = NotePeer(t, "belongs", p,
                 [thr EXCEPT ![t] =
                    IF s = NULL
                    THEN Return(Enter(t, "belongs", p, h), "FALSE")
                    ELSE [Enter(t, "belongs", p, h) EXCEPT
                             !.pInfo = s, !.pc = "bel_34"]])
    /\ UNCHANGED <<m_table, m_mutex, pool, allocated, serialized, ld, flipFrom, origin, hopped>>

\* BelongsCompare comparing with pInfo->ParentHandler.
BelongsCompareParent(t) ==
    /\ CanRun(t) /\ thr[t].pc = "bel_34"
    /\ thr' = [thr EXCEPT ![t] =
                  Return(thr[t], IF pool[thr[t].pInfo].Value.ParentHandler = thr[t].handler
                                 THEN "TRUE" ELSE "FALSE")]
    /\ UNCHANGED <<m_table, m_mutex, pool, allocated, serialized, ld, flipFrom, origin, hopped, calls>>

\* Line 34: return pInfo->Handler == handler.
BelongsCompare(t) ==
    /\ CanRun(t) /\ thr[t].pc = "bel_34"
    /\ \E h \in ReadHandler(thr[t].pInfo) :
        thr' = [thr EXCEPT ![t] =
                  Return(thr[t], IF h = thr[t].handler THEN "TRUE" ELSE "FALSE")]
    /\ UNCHANGED <<m_table, m_mutex, pool, allocated, serialized, ld, flipFrom, origin, hopped, calls>>

\* ------------------------------------- GetProcessHandler (DWORD*)
\* Lines 43-53: the argument check and the lookup.
GetProcessHandler(t) ==
    /\ CanCall(t)
    /\ calls' = calls + 1
    /\ \E p \in Processes, outIsNull \in BOOLEAN : \E s \in Lookup(p) :
        thr' = NotePeer(t, "get", p,
                 [thr EXCEPT ![t] =
                    IF outIsNull
                    THEN Return(Enter(t, "get", p, 0), "STATUS_INVALID_PARAMETER")
                    ELSE IF s = NULL
                    THEN Return(Enter(t, "get", p, 0), "STATUS_NOT_FOUND")
                    ELSE [Enter(t, "get", p, 0) EXCEPT !.pInfo = s, !.pc = "get_55"]])
    /\ UNCHANGED <<m_table, m_mutex, pool, allocated, serialized, ld, flipFrom, origin, hopped>>

\* GetReadHandler storing pInfo->ParentHandler.
GetReadHandlerParent(t) ==
    /\ CanRun(t) /\ thr[t].pc = "get_55"
    /\ thr' = [thr EXCEPT ![t] =
                  Return([thr[t] EXCEPT !.out.Handler = pool[thr[t].pInfo].Value.ParentHandler],
                         "STATUS_SUCCESS")]
    /\ UNCHANGED <<m_table, m_mutex, pool, allocated, serialized, ld, flipFrom, origin, hopped, calls>>

\* Lines 55-57: *handler = pInfo->Handler.
GetReadHandler(t) ==
    /\ CanRun(t) /\ thr[t].pc = "get_55"
    /\ \E h \in ReadHandler(thr[t].pInfo) :
        thr' = [thr EXCEPT ![t] =
                  Return([thr[t] EXCEPT !.out.Handler = h], "STATUS_SUCCESS")]
    /\ UNCHANGED <<m_table, m_mutex, pool, allocated, serialized, ld, flipFrom, origin, hopped, calls>>

\* ------------------ GetProcessHandler (PPROCESS_HANDLER_INFORMATION)
\* Lines 66-76: the argument check and the lookup.
GetProcessHandlerInformation(t) ==
    /\ CanCall(t)
    /\ calls' = calls + 1
    /\ \E p \in Processes, outIsNull \in BOOLEAN : \E s \in Lookup(p) :
        thr' = NotePeer(t, "getinfo", p,
                 [thr EXCEPT ![t] =
                    IF outIsNull
                    THEN Return(Enter(t, "getinfo", p, 0), "STATUS_INVALID_PARAMETER")
                    ELSE IF s = NULL
                    THEN Return(Enter(t, "getinfo", p, 0), "STATUS_NOT_FOUND")
                    ELSE [Enter(t, "getinfo", p, 0) EXCEPT
                             !.pInfo = s, !.pc = "geti_78"]])
    /\ UNCHANGED <<m_table, m_mutex, pool, allocated, serialized, ld, flipFrom, origin, hopped>>

\* Lines 78-80: *handlerInformation = *pInfo.
GetCopyInformation(t) ==
    /\ CanRun(t) /\ thr[t].pc = "geti_78"
    /\ \E info \in ReadInfo(thr[t].pInfo) :
        thr' = [thr EXCEPT ![t] = Return([thr[t] EXCEPT !.out = info], "STATUS_SUCCESS")]
    /\ UNCHANGED <<m_table, m_mutex, pool, allocated, serialized, ld, flipFrom, origin, hopped, calls>>

\* ================================================================ loader
\* mxss/monix/src/loader.cpp.  ld.log is the sequence of syscalls the process
\* has issued: the numbering the syscall number is taken from, the number,
\* the arguments, the line of loader.cpp that issues it and the value the
\* kernel returned (0 where the code does not look at the value).

\* What a syscall can return: -errno, or a non-negative result.
SyscallResults == (0 - MaxErrno)..MaxResult

Syscall(abi, number, args, line, result) ==
    [abi |-> abi, number |-> number, args |-> args, line |-> line, result |-> result]

\* The loader leaves the registry alone.
RegistryUnchanged ==
    UNCHANGED <<m_table, m_mutex, pool, allocated, thr, serialized, flipFrom,
                hopped, origin, calls>>

\* Lines 160-163: the entry of LinuxFail.
LinuxFail(l, message, status) ==
    [l EXCEPT !.pc = "fail_digit", !.message = message, !.failStatus = status,
              !.statusString = <<":", " ">>, !.length = 2, !.status = 0 - status]

\* A step of _start: status = LinuxSyscall(...), then LinuxFail when the
\* check on status fails, the next step otherwise.
Step(l, call, failed, message, next) ==
    LET issued == [l EXCEPT !.log = Append(@, call), !.status = call.result] IN
        IF failed THEN LinuxFail(issued, message, call.result)
        ELSE [issued EXCEPT !.pc = next]

\* Lines 202-207.
WriteBootstrapping ==
    /\ ld.pc = "write_bootstrap"
    /\ \E r \in SyscallResults :
        ld' = Step(ld, Syscall("Linux", "SYS_write",
                               <<1, "Bootstrapping the container with Monix loader...\n">>,
                               202, r),
                   r < 0, "Cannot write Hello World", "mknod")
    /\ RegistryUnchanged

\* Lines 209-217.
MakeRealityDevice ==
    /\ ld.pc = "mknod"
    /\ \E r \in SyscallResults :
        ld' = Step(ld, Syscall("Linux", "SYS_mknod", <<"/dev/reality">>, 209, r),
                   r < 0 /\ r # 0 - EEXIST, "Cannot create the reality device", "open")
    /\ RegistryUnchanged

\* Lines 219-224.
OpenRealityDevice ==
    /\ ld.pc = "open"
    /\ \E r \in SyscallResults :
        ld' = [Step(ld, Syscall("Linux", "SYS_open", <<"/dev/reality", "O_RDONLY">>, 219, r),
                    r < 0, "Cannot open the reality device", "chroot")
               EXCEPT !.fd = IF r < 0 THEN @ ELSE r]
    /\ RegistryUnchanged

\* Lines 227-231.
ChangeRoot ==
    /\ ld.pc = "chroot"
    /\ \E r \in SyscallResults :
        ld' = Step(ld, Syscall("Linux", "SYS_chroot", <<"/rootfs/">>, 227, r),
                   r < 0, "Cannot change root", "chdir")
    /\ RegistryUnchanged

\* Lines 233-237.
ChangeDirectory ==
    /\ ld.pc = "chdir"
    /\ \E r \in SyscallResults :
        ld' = Step(ld, Syscall("Linux", "SYS_chdir", <<"/">>, 233, r),
                   r < 0, "Cannot change directory", "ioctl")
    /\ RegistryUnchanged

\* SetProvider going on into the Monix world whatever the request returned.
SetProviderUnchecked ==
    /\ ld.pc = "ioctl"
    /\ \E r \in SyscallResults :
        ld' = Step(ld, Syscall("Linux", "SYS_ioctl",
                               <<ld.fd, "MA_IOCTL_SET_PROVIDER", "Monix">>, 239, r),
                   FALSE, "Cannot set the provider name", "monix_write")
    /\ RegistryUnchanged

\* Lines 239-243: the set-provider request on the reality device.
SetProvider ==
    /\ ld.pc = "ioctl"
    /\ \E r \in SyscallResults :
        ld' = Step(ld, Syscall("Linux", "SYS_ioctl",
                               <<ld.fd, "MA_IOCTL_SET_PROVIDER", "Monix">>, 239, r),
                   r < 0, "Cannot set the provider name", "monix_write")
    /\ RegistryUnchanged

\* MonixWrite issued through the Linux numbering.
MonixWriteLinuxNumbering ==
    /\ ld.pc = "monix_write"
    /\ ld' = [ld EXCEPT !.log = Append(@, Syscall("Linux", "SYS_write",
                                                   <<1, "Hello, Monix World!\n">>, 247, 0)),
                         !.pc = "monix_exit"]
    /\ RegistryUnchanged

\* Line 247: MonixSyscall(SYSCALL_WRITE, ...).
MonixWrite ==
    /\ ld.pc = "monix_write"
    /\ ld' = [ld EXCEPT !.log = Append(@, Syscall("Monix", "SYSCALL_WRITE",
                                                   <<1, "Hello, Monix World!\n">>, 247, 0)),
                         !.pc = "monix_exit"]
    /\ RegistryUnchanged

\* Line 249: MonixSyscall(SYSCALL_EXIT, -1).  The provider either ends the
\* process or hands it back to the Linux provider (line 251), in which case
\* the syscall returns.
MonixExit ==
    /\ ld.pc = "monix_exit"
    /\ \E returns \in BOOLEAN :
        ld' = [ld EXCEPT !.log = Append(@, Syscall("Monix", "SYSCALL_EXIT", <<-1>>, 249, 0)),
                         !.pc = IF returns THEN "write_exited" ELSE "exited"]
    /\ RegistryUnchanged

\* Line 252.
WriteExited ==
    /\ ld.pc = "write_exited"
    /\ ld' = [ld EXCEPT !.log = Append(@, Syscall("Linux", "SYS_write",
                                                   <<1, "Monix container exited.\n">>, 252, 0)),
                         !.pc = "exit"]
    /\ RegistryUnchanged

\* Line 253.
Exit ==
    /\ ld.pc = "exit"
    /\ ld' = [ld EXCEPT !.log = Append(@, Syscall("Linux", "SYS_exit", <<0>>, 253, 0)),
                        !.pc = "exited"]
    /\ RegistryUnchanged

\* (d) + '0' for a digit d.
DigitChar(d) == <<"0", "1", "2", "3", "4", "5", "6", "7", "8", "9">>[d + 1]

\* Lines 165-171: one round of the do-while loop.
FailDigit ==
    /\ ld.pc = "fail_digit"
    /\ ld' = [ld EXCEPT
                !.statusString = Append(@, DigitChar(ld.status % 10)),
                !.status = ld.status \div 10,
                !.length = @ + 1,
                !.pc = IF ld.status \div 10 # 0 THEN "fail_digit" ELSE "fail_newline"]
    /\ RegistryUnchanged

\* Lines 173-174.
FailNewline ==
    /\ ld.pc = "fail_newline"
    /\ ld' = [ld EXCEPT !.statusString = Append(@, "\n"), !.length = @ + 1,
                        !.pc = "fail_write_message"]
    /\ RegistryUnchanged

\* Line 176.
FailWriteMessage ==
    /\ ld.pc = "fail_write_message"
    /\ ld' = [ld EXCEPT !.log = Append(@, Syscall("Linux", "SYS_write",
                                                   <<2, ld.message>>, 176, 0)),
                         !.pc = "fail_write_status"]
    /\ RegistryUnchanged

\* Line 177.
FailWriteStatus ==
    /\ ld.pc = "fail_write_status"
    /\ ld' = [ld EXCEPT !.log = Append(@, Syscall("Linux", "SYS_write",
                                   <<2, SubSeq(ld.statusString, 1, ld.length)>>, 177, 0)),
                         !.pc = "fail_exit"]
    /\ RegistryUnchanged

\* Line 178: LinuxSyscall(SYS_exit, status).
FailExit ==
    /\ ld.pc = "fail_exit"
    /\ ld' = [ld EXCEPT !.log = Append(@, Syscall("Linux", "SYS_exit", <<ld.status>>, 178, 0)),
                        !.pc = "exited"]
    /\ RegistryUnchanged

NextLoader ==
    \/ WriteBootstrapping
    \/ MakeRealityDevice
    \/ OpenRealityDevice
    \/ ChangeRoot
    \/ ChangeDirectory
    \/ SetProvider
    \/ MonixWrite
    \/ MonixExit
    \/ WriteExited
    \/ Exit
    \/ FailDigit
    \/ FailNewline
    \/ FailWriteMessage
    \/ FailWriteStatus
    \/ FailExit

\* ------------------------------------------------------ specifications
Next ==
    \E t \in Threads :
        \/ RegisterProcessHandler(t)
        \/ InsertElement(t)
        \/ UnregisterProcess(t)
        \/ DeleteElement(t)
        \/ SwitchProcessHandler(t)
        \/ SwitchRegister(t)
        \/ SwitchLookupAgain(t)
        \/ SwitchCheck(t)
        \/ SwitchSetHasParentHandler(t)
        \/ SwitchSetHasInternalParentHandler(t)
        \/ SwitchSetParentHandler(t)
        \/ SwitchSetHandler(t)
        \/ ProcessBelongsToHandler(t)
        \/ BelongsCompare(t)
        \/ GetProcessHandler(t)
        \/ GetReadHandler(t)
        \/ GetProcessHandlerInformation(t)
        \/ GetCopyInformation(t)
        \/ Clear(t)
        \/ ClearEnumerate(t)
        \/ ClearDelete(t)

\* Threads call into the registry concurrently.
Spec == Init /\ [][Next]_vars

\* A single thread calls into the registry.
SpecSeq == InitSeq /\ [][Next]_vars

\* The loader process runs _start.
SpecLoader == InitSeq /\ [][NextLoader]_vars


\* ------------------------------------------------------------ properties
\* The elements the table holds for process p.
Entries(p) == {s \in m_table : pool[s].Key = p}

\* No method is in flight.
Quiescent == \A t \in Threads : Idle(t)

\* Thread t has returned from method op.
Returned(t, op) == Done(t) /\ thr[t].op = op

\* Process p had a delegated entry when thread t entered its method.
WasDelegated(t, p) == \E e \in thr[t].pre[p] : e.HasParentHandler

\* C1: once a SwitchProcessHandler for a process has succeeded and the
\* process has not been unregistered since, a further SwitchProcessHandler
\* for it returns STATUS_NOT_IMPLEMENTED and leaves the process's entry (all
\* four fields) as it was.
SingleHop ==
    \A t \in Threads :
        (Returned(t, "switch") /\ thr[t].wasHopped) =>
            /\ thr[t].status = "STATUS_NOT_IMPLEMENTED"
            /\ View(thr[t].process) = thr[t].pre[thr[t].process]

SingleHopWitness ==
    \E t \in Threads :
        /\ Returned(t, "switch") /\ thr[t].wasHopped
        /\ thr[t].status = "STATUS_NOT_IMPLEMENTED"
        /\ \E e \in View(thr[t].process) :
            e.HasParentHandler /\ e.Handler # thr[t].handler

\* The delegated entry thread t's SwitchProcessHandler produces from the
\* registry it started from.
DelegatedBy(t) ==
    LET p == thr[t].process IN
        [Handler |-> thr[t].handler,
         HasParentHandler |-> TRUE,
         HasInternalParentHandler |-> (thr[t].pre[p] # {}),
         ParentHandler |-> IF thr[t].pre[p] = {} THEN Sentinel
                           ELSE (CHOOSE e \in thr[t].pre[p] : TRUE).Handler]

\* C2: two overlapping SwitchProcessHandler calls for the same process that
\* start from the same state of the registry, with the process Registered or
\* Unregistered, neither of them running out of pool memory: exactly one
\* returns STATUS_SUCCESS and the other STATUS_NOT_IMPLEMENTED, and the final
\* entry is the delegated entry the winner alone produces.
ConcurrentSwitchOneWinner ==
    \A t, u \in Threads :
        (/\ t # u
         /\ Returned(t, "switch") /\ Returned(u, "switch")
         /\ thr[t].process = thr[u].process
         /\ thr[t].peer = u /\ thr[u].peer = t
         /\ thr[t].pre = thr[u].pre
         /\ ~WasDelegated(t, thr[t].process)
         /\ thr[t].status # "STATUS_INSUFFICIENT_RESOURCES"
         /\ thr[u].status # "STATUS_INSUFFICIENT_RESOURCES") =>
            \E w \in {t, u} :
                /\ thr[w].status = "STATUS_SUCCESS"
                /\ \A l \in {t, u} \ {w} : thr[l].status = "STATUS_NOT_IMPLEMENTED"
                /\ (Quiescent => /\ View(thr[w].process) = {DelegatedBy(w)}
                                 /\ Cardinality(Entries(thr[w].process)) = 1)

\* C3: a thread inside a registry method holds the registry lock, and no two
\* threads are inside registry methods at the same time.
MutualExclusion ==
    /\ \A t \in Threads : ~Idle(t) => m_mutex = t
    /\ Cardinality({t \in Threads : ~Idle(t)}) <= 1

\* C4: a SwitchProcessHandler(P, H2) that starts from Registered(H1) succeeds
\* and leaves Handler = H2, HasParentHandler = TRUE, ParentHandler = H1; the
\* full-entry GetProcessHandler reports the entry the table holds; and every
\* entry at rest with HasParentHandler = TRUE has ParentHandler equal to the
\* Handler it held just before HasParentHandler was set.
ParentCorrect ==
    /\ \A t \in Threads :
        LET p == thr[t].process IN
        (Returned(t, "switch") /\ thr[t].pre[p] # {} /\ ~WasDelegated(t, p)) =>
            /\ thr[t].status = "STATUS_SUCCESS"
            /\ Cardinality(Entries(p)) = 1
            /\ \A v \in View(p), e \in thr[t].pre[p] :
                /\ v.Handler = thr[t].handler
                /\ v.HasParentHandler
                /\ v.ParentHandler = e.Handler
    /\ \A t \in Threads :
        (Returned(t, "getinfo") /\ thr[t].status = "STATUS_SUCCESS") =>
            View(thr[t].process) = {thr[t].out}
    /\ Quiescent =>
        \A s \in m_table :
            pool[s].Value.HasParentHandler =>
                pool[s].Value.ParentHandler = flipFrom[s]

ParentCorrectWitness ==
    \E t \in Threads :
        /\ Returned(t, "getinfo") /\ thr[t].status = "STATUS_SUCCESS"
        /\ thr[t].out.HasParentHandler
        /\ thr[t].out.HasInternalParentHandler
        /\ thr[t].out.ParentHandler # thr[t].out.Handler
        /\ thr[t].out.ParentHandler # Sentinel

\* C5: SwitchProcessHandler(P, H2) for a process with no entry, when the
\* allocation succeeds, returns STATUS_SUCCESS and leaves exactly one entry
\* for P: Handler = H2, HasParentHandler = TRUE, HasInternalParentHandler =
\* FALSE, ParentHandler = the sentinel.
ImplicitHandoff ==
    \A t \in Threads :
        LET p == thr[t].process IN
        (/\ Returned(t, "switch") /\ thr[t].pre[p] = {}
         /\ thr[t].status # "STATUS_INSUFFICIENT_RESOURCES") =>
            /\ thr[t].status = "STATUS_SUCCESS"
            /\ Cardinality(Entries(p)) = 1
            /\ View(p) = {[Handler |-> thr[t].handler,
                           HasParentHandler |-> TRUE,
                           HasInternalParentHandler |-> FALSE,
                           ParentHandler |-> Sentinel]}

ImplicitHandoffWitness ==
    \E t \in Threads :
        /\ Returned(t, "switch") /\ thr[t].pre[thr[t].process] = {}
        /\ thr[t].status = "STATUS_SUCCESS"
        /\ thr[t].handler # Sentinel
        /\ RegistrySize = 2

\* C6: when no method is in flight no entry has Handler equal to the
\* sentinel, and no query of any thread reports the sentinel as a process's
\* handler.
SentinelNeverObserved ==
    /\ Quiescent => \A s \in m_table : pool[s].Value.Handler # Sentinel
    /\ \A t \in Threads :
        /\ (Returned(t, "get") /\ thr[t].status = "STATUS_SUCCESS") =>
                thr[t].out.Handler # Sentinel
        /\ (Returned(t, "getinfo") /\ thr[t].status = "STATUS_SUCCESS") =>
                thr[t].out.Handler # Sentinel
        /\ (Returned(t, "belongs") /\ thr[t].handler = Sentinel) =>
                thr[t].status = "FALSE"

\* C7: RegisterProcessHandler for a process that has an entry, Registered or
\* Delegated, returns STATUS_ALREADY_REGISTERED and changes neither an entry
\* nor the size of the registry; it returns STATUS_SUCCESS only from
\* Unregistered.
RegisterNoOverwrite ==
    \A t \in Threads :
        LET p == thr[t].process IN
        Returned(t, "register") =>
            /\ thr[t].pre[p] # {} =>
                /\ thr[t].status = "STATUS_ALREADY_REGISTERED"
                /\ Registry = thr[t].pre
                /\ RegistrySize = thr[t].preSize
            /\ thr[t].status = "STATUS_SUCCESS" => thr[t].pre[p] = {}

RegisterNoOverwriteWitness ==
    \E t \in Threads :
        /\ Returned(t, "register")
        /\ thr[t].status = "STATUS_ALREADY_REGISTERED"
        /\ \E e \in View(thr[t].process) :
            e.HasParentHandler /\ e.Handler # thr[t].handler

\* C8: the registry holds at most one entry for every process.
Uniqueness == \A p \in Processes : Cardinality(Entries(p)) <= 1

\* C9: a SwitchProcessHandler that does not return STATUS_SUCCESS returns
\* STATUS_INSUFFICIENT_RESOURCES (only from Unregistered, and the process
\* still has no entry) or STATUS_NOT_IMPLEMENTED (always from Delegated), and
\* has created, removed or modified no entry.
FailedSwitchNoChange ==
    \A t \in Threads :
        LET p == thr[t].process IN
        Returned(t, "switch") =>
            /\ thr[t].status \in {"STATUS_SUCCESS", "STATUS_INSUFFICIENT_RESOURCES",
                                  "STATUS_NOT_IMPLEMENTED"}
            /\ thr[t].status # "STATUS_SUCCESS" =>
                /\ Registry = thr[t].pre
                /\ RegistrySize = thr[t].preSize
            /\ thr[t].status = "STATUS_INSUFFICIENT_RESOURCES" =>
                thr[t].pre[p] = {} /\ Entries(p) = {}
            /\ thr[t].status = "STATUS_NOT_IMPLEMENTED" => WasDelegated(t, p)
            /\ WasDelegated(t, p) => thr[t].status = "STATUS_NOT_IMPLEMENTED"

FailedSwitchNoChangeWitness ==
    \E t \in Threads :
        /\ Returned(t, "switch")
        /\ thr[t].status = "STATUS_INSUFFICIENT_RESOURCES"
        /\ RegistrySize = 1

\* C10: UnregisterProcess for a process with no entry returns
\* STATUS_NOT_FOUND and changes neither the size of the registry nor an
\* entry; for a process with an entry it returns STATUS_SUCCESS, removes the
\* entry and leaves the other processes' entries alone; called again for the
\* same process right after a success it returns STATUS_NOT_FOUND.
IdempotentAbsence ==
    \A t \in Threads :
        LET p == thr[t].process IN
        Returned(t, "unregister") =>
            /\ thr[t].pre[p] = {} =>
                /\ thr[t].status = "STATUS_NOT_FOUND"
                /\ Registry = thr[t].pre
                /\ RegistrySize = thr[t].preSize
            /\ thr[t].pre[p] # {} =>
                /\ thr[t].status = "STATUS_SUCCESS"
                /\ Entries(p) = {}
                /\ RegistrySize = thr[t].preSize - 1
                /\ \A q \in Processes \ {p} : View(q) = thr[t].pre[q]
            /\ thr[t].again = "STATUS_SUCCESS" => thr[t].status = "STATUS_NOT_FOUND"

IdempotentAbsenceWitness ==
    \E t \in Threads :
        /\ Returned(t, "unregister")
        /\ thr[t].again = "STATUS_SUCCESS"
        /\ thr[t].status = "STATUS_NOT_FOUND"

\* The entry RegisterProcessHandler(p, h) inserts.
FreshEntry(h) == [ZeroInfo EXCEPT !.Handler = h]

\* Thread t's query was made with a usable output pointer.
Answered(t) == thr[t].status # "STATUS_INVALID_PARAMETER"

\* C11: a GetProcessHandler(P) that follows a successful
\* RegisterProcessHandler(P, H) returns STATUS_SUCCESS and H, and the
\* full-entry form returns the entry {H, HasParentHandler = FALSE}; an
\* UnregisterProcess(P) that follows the registration succeeds; and a
\* GetProcessHandler(P), in either form, that follows a successful
\* UnregisterProcess(P) returns STATUS_NOT_FOUND.
RoundTrip ==
    \A t \in Threads :
        /\ (Returned(t, "get") /\ Answered(t) /\ thr[t].after.op = "register") =>
                /\ thr[t].status = "STATUS_SUCCESS"
                /\ thr[t].out.Handler = thr[t].after.handler
        /\ (Returned(t, "getinfo") /\ Answered(t) /\ thr[t].after.op = "register") =>
                /\ thr[t].status = "STATUS_SUCCESS"
                /\ thr[t].out = FreshEntry(thr[t].after.handler)
        /\ (Returned(t, "unregister") /\ thr[t].after.op = "register") =>
                thr[t].status = "STATUS_SUCCESS"
        /\ ((Returned(t, "get") \/ Returned(t, "getinfo")) /\ Answered(t)
                /\ thr[t].after.op = "unregister") =>
                thr[t].status = "STATUS_NOT_FOUND"

RoundTripWitness ==
    \E t \in Threads :
        /\ Returned(t, "get") /\ thr[t].after.op = "register"
        /\ thr[t].status = "STATUS_SUCCESS"
        /\ thr[t].out.Handler = thr[t].after.handler
        /\ RegistrySize = 2

\* C12: UnregisterProcess(P) for a process with an entry, Registered or
\* Delegated, returns STATUS_SUCCESS, leaves P without an entry and the other
\* processes' entries as they were; a RegisterProcessHandler(P, H) that
\* follows it succeeds (unless the pool is exhausted) with the fresh entry
\* {H, HasParentHandler = FALSE}, and a SwitchProcessHandler(P, H) that
\* follows it succeeds with ParentHandler = the sentinel and
\* HasInternalParentHandler = FALSE.
UnregisterForgets ==
    \A t \in Threads :
        LET p == thr[t].process IN
        /\ (Returned(t, "unregister") /\ thr[t].pre[p] # {}) =>
                /\ thr[t].status = "STATUS_SUCCESS"
                /\ View(p) = {}
                /\ \A q \in Processes \ {p} : View(q) = thr[t].pre[q]
        /\ (Returned(t, "register") /\ thr[t].after.op = "unregister"
                /\ thr[t].status # "STATUS_INSUFFICIENT_RESOURCES") =>
                /\ thr[t].status = "STATUS_SUCCESS"
                /\ View(p) = {FreshEntry(thr[t].handler)}
        /\ (Returned(t, "switch") /\ thr[t].after.op = "unregister"
                /\ thr[t].status # "STATUS_INSUFFICIENT_RESOURCES") =>
                /\ thr[t].status = "STATUS_SUCCESS"
                /\ View(p) = {[Handler |-> thr[t].handler,
                               HasParentHandler |-> TRUE,
                               HasInternalParentHandler |-> FALSE,
                               ParentHandler |-> Sentinel]}

UnregisterForgetsWitness ==
    \E t \in Threads :
        /\ Returned(t, "switch") /\ thr[t].after.op = "unregister"
        /\ thr[t].after.delegated
        /\ thr[t].status = "STATUS_SUCCESS"

\* C13: ProcessBelongsToHandler(P, H) returns TRUE or FALSE and nothing
\* else, TRUE exactly when P has an entry whose Handler is H, and leaves the
\* registry as it was.
BelongsExact ==
    \A t \in Threads :
        LET p == thr[t].process IN
        Returned(t, "belongs") =>
            /\ thr[t].status \in {"TRUE", "FALSE"}
            /\ thr[t].status = "TRUE" <=> \E e \in thr[t].pre[p] : e.Handler = thr[t].handler
            /\ Registry = thr[t].pre
            /\ RegistrySize = thr[t].preSize

BelongsExactWitness ==
    \E t \in Threads :
        /\ Returned(t, "belongs") /\ thr[t].status = "TRUE"
        /\ \E e \in View(thr[t].process) :
            e.HasParentHandler /\ e.ParentHandler # thr[t].handler

\* C18: in every state with no method in flight and one entry per process at
\* most, however the calls that led to it interleaved, an entry with
\* HasParentHandler = TRUE has
\* HasInternalParentHandler = TRUE exactly when the element was created by an
\* explicit RegisterProcessHandler call, and FALSE exactly when it was
\* created by SwitchProcessHandler's implicit registration of the sentinel.
InternalIffExplicit ==
    (Quiescent /\ \A p \in Processes : Cardinality(Entries(p)) <= 1) =>
        \A s \in m_table :
            pool[s].Value.HasParentHandler =>
                /\ pool[s].Value.HasInternalParentHandler <=> origin[s] = "explicit"
                /\ ~pool[s].Value.HasInternalParentHandler <=> origin[s] = "implicit"

\* C20: while Clear runs with no other method in flight it can always take
\* its next step, and the rounds of its loop so far plus the entries still in
\* the table make up the entries it started with, so the loop ends after one
\* round per entry; when Clear returns the table is empty and every element
\* is freed; a GetProcessHandler(P), in either form, or an
\* UnregisterProcess(P) that follows it returns STATUS_NOT_FOUND.
ClearDrains ==
    \A t \in Threads :
        /\ (thr[t].op = "clear" /\ ~Idle(t)) =>
                /\ thr[t].rounds + RegistrySize = thr[t].preSize
                /\ ENABLED (ClearEnumerate(t) \/ ClearDelete(t))
        /\ Returned(t, "clear") =>
                /\ thr[t].rounds = thr[t].preSize
                /\ m_table = {}
                /\ allocated = {}
        /\ ((Returned(t, "get") \/ Returned(t, "getinfo")) /\ Answered(t)
                /\ thr[t].after.op = "clear") =>
                thr[t].status = "STATUS_NOT_FOUND"
        /\ (Returned(t, "unregister") /\ thr[t].after.op = "clear") =>
                thr[t].status = "STATUS_NOT_FOUND"

ClearDrainsWitness ==
    \E t \in Threads :
        /\ Returned(t, "clear") /\ m_table = {}
        /\ thr[t].preSize = 2
        /\ \E p, q \in Processes :
            /\ \E e \in thr[t].pre[p] : e.HasParentHandler
            /\ \E e \in thr[t].pre[q] : ~e.HasParentHandler

\* Thread u is inside SwitchProcessHandler, between its check of line 140 and
\* its return, working on the element pInfo points to; it started from a
\* Registered entry of its process.
Switching(u, p, pInfo) ==
    /\ thr[u].op = "switch" /\ thr[u].process = p /\ thr[u].pInfo = pInfo
    /\ thr[u].pc \in {"sw_check", "sw_145", "sw_146", "sw_147", "sw_148"}
    /\ \E e \in thr[u].pre[p] : thr[u].pre[p] = {e} /\ ~e.HasParentHandler

\* C19: the full-entry GetProcessHandler(P) of thread t copies the entry while
\* thread u is handing P's Registered entry off, nothing else having touched
\* the entry since either call began: the copy is the entire entry as it was
\* before the handoff or the entire entry as it is after it.
SnapshotConsistent ==
    [][\A t, u \in Threads :
        LET p == thr[t].process
            s == thr[t].pInfo IN
        (/\ t # u /\ thr[t].pc = "geti_78" /\ thr'[t].pc = "idle"
         /\ s \in allocated /\ s \in m_table
         /\ Switching(u, p, s)
         /\ thr[t].pre[p] = thr[u].pre[p]
         /\ \A w \in Threads \ {t, u} : Idle(w)) =>
            thr'[t].out \in thr[u].pre[p] \cup {DelegatedBy(u)}]_vars

\* ---------------------------------------------------- loader properties
\* The decimal rendering of n, most significant digit first.
RECURSIVE Decimal(_)
Decimal(n) ==
    IF n < 10 THEN <<DigitChar(n)>>
    ELSE Append(Decimal(n \div 10), DigitChar(n % 10))

\* LinuxFail has been entered and has written its diagnostic.
FailReported == ld.failStatus # 0 /\ ld.pc \in {"fail_exit", "exited"}

\* The position in the log of the write of LinuxFail's status line.
StatusLineAt == IF ld.pc = "exited" THEN Len(ld.log) - 1 ELSE Len(ld.log)

\* C14: LinuxFail, called with the negative status s, writes the message to
\* file descriptor 2 and then the line ": ", the decimal digits of -s with
\* the most significant digit first, and a newline.
FailDiagnostic ==
    FailReported =>
        /\ ld.log[StatusLineAt - 1].abi = "Linux"
        /\ ld.log[StatusLineAt - 1].number = "SYS_write"
        /\ ld.log[StatusLineAt - 1].args = <<2, ld.message>>
        /\ ld.log[StatusLineAt].abi = "Linux"
        /\ ld.log[StatusLineAt].number = "SYS_write"
        /\ ld.log[StatusLineAt].args =
                <<2, <<":", " ">> \o Decimal(0 - ld.failStatus) \o <<"\n">>>>

\* C15: the exit syscall LinuxFail issues for the negative status s carries
\* -s, the value rendered in the diagnostic line.
FailExitStatus ==
    (ld.failStatus # 0 /\ ld.pc = "exited") =>
        /\ ld.log[Len(ld.log)].number = "SYS_exit"
        /\ ld.log[Len(ld.log)].args = <<0 - ld.failStatus>>

\* Entry i of the log is the set-provider request and it succeeded.
HandedOff(i) == ld.log[i].line = 239 /\ ld.log[i].result >= 0

\* C16, as stated: every syscall issued after the set-provider request has
\* succeeded uses the Monix numbering.
MonixOnlyAfterHandoff ==
    \A i, j \in 1..Len(ld.log) :
        (i < j /\ HandedOff(i)) => ld.log[j].abi = "Monix"

\* C16: after the set-provider request has succeeded the process issues
\* SYSCALL_WRITE and then SYSCALL_EXIT in the Monix numbering; a syscall in
\* the Linux numbering is issued only after that SYSCALL_EXIT has returned.
MonixUntilMonixExit ==
    \A i, j \in 1..Len(ld.log) :
        (i < j /\ HandedOff(i)) =>
            /\ j = i + 1 => ld.log[j].abi = "Monix" /\ ld.log[j].number = "SYSCALL_WRITE"
            /\ j = i + 2 => ld.log[j].abi = "Monix" /\ ld.log[j].number = "SYSCALL_EXIT"
            /\ ld.log[j].abi = "Linux" => j > i + 2

MonixUntilMonixExitWitness ==
    /\ ld.pc = "exited"
    /\ \E i \in 1..Len(ld.log) : HandedOff(i)
    /\ ld.log[Len(ld.log)].abi = "Linux"
    /\ ld.log[Len(ld.log)].number = "SYS_exit"

\* Entry i of the log is a bootstrap step of _start that must succeed, and
\* it returned a negative status.
BootstrapFailed(i) ==
    ld.log[i].line \in {202, 219, 227, 233, 239} /\ ld.log[i].result < 0

\* C17: when the first write, the open of the reality device, chroot, chdir
\* or the set-provider request returns a negative status, the process issues
\* no syscall in the Monix numbering; after the failed step it issues only
\* the two diagnostic writes to file descriptor 2 and the exit, all in the
\* Linux numbering, and it attempts no later bootstrap step.
FailureStaysLinux ==
    \A i \in 1..Len(ld.log) :
        BootstrapFailed(i) =>
            /\ \A j \in 1..Len(ld.log) : ld.log[j].abi = "Linux"
            /\ Len(ld.log) <= i + 3
            /\ ld.pc \in {"fail_digit", "fail_newline", "fail_write_message",
                           "fail_write_status", "fail_exit", "exited"}
            /\ \A j \in (i + 1)..Len(ld.log) :
                /\ j <= i + 2 => /\ ld.log[j].number = "SYS_write"
                                 /\ ld.log[j].args[1] = 2
                /\ j = i + 3 => ld.log[j].number = "SYS_exit"

FailureStaysLinuxWitness ==
    /\ ld.pc = "exited"
    /\ Len(ld.log) > 3
    /\ ld.log[Len(ld.log) - 3].line = 239
    /\ ld.log[Len(ld.log) - 3].result < 0

====
